---- MODULE Spec2Model ----
\* Contract-intelligence API: ingest / processing pipeline, question answering
\* pre-checks, field extraction and audit, modelled from the Django views,
\* Celery tasks and services of the repository.
EXTENDS Integers, Sequences, FiniteSets, Bags, TLC

\* ---------------------------------------------------------------- bounds

\* total number of uploads (IngestView.post calls) over a behaviour
MaxUploads == 2
\* total number of exceptions injected into processing steps
MaxFailures == 1
MaxTaskFailures == 4
\* total number of extract_contract_fields_task runs over a behaviour
MaxExtractRuns == 3
\* total number of audit requests (AuditView.post calls) over a behaviour
MaxAudits == 2
\* length of the findings list an LLM response may carry
MaxLlmFindings == 2
\* length of the texts given to the chunker
MaxTextLen == 4
\* largest chunk size, in characters, the chunker is configured with
MaxChunkSize == 3
\* largest notice_days of an extracted auto-renewal clause
MaxNoticeDays == 31
\* largest similarity of a stored vector to the question
MaxSimilarity == 2
\* largest top_k retrieve is called with
MaxTopK == 3

\* ------------------------------------------------------ program constants

\* @shared_task(bind=True, max_retries=3) of process_document_task
ProcessMaxRetries == 3

\* countdown=60 * (self.request.retries + 1)
RetryBackoff == 60

\* key = (finding['risk_type'], finding['evidence'][:50])
EvidenceKeyLen == 50
\* evidence_text=finding.get('evidence', '')[:1000]
EvidenceTextMax == 1000
\* text[max(0, match.start()-100):min(len(text), match.end()+100)]
EvidenceWindow == 100
\* if notice_days and notice_days < 30
MinNoticeDays == 30

\* NULL of a text column; a NULL integer column is written -1 and "no document
\* id" (an unsaved Document) 0, AutoField ids starting at 1
None == "None"

\* the uploaded byte contents, identified by their SHA256 (calculate_file_hash)
Hashes == {"h1", "h2"}
Filenames == {"contract.pdf", "contract_copy.pdf"}
\* concurrent HTTP requests / Celery worker processes
Requests == {"r1", "r2"}
Workers == {"w1", "w2"}

\* Document.STATUS_CHOICES
STATUS_CHOICES == {"pending", "processing", "completed", "failed"}

\* What PyPDFLoader yields for each content: the page texts in page order.
\* h1 is a one-page text contract, h2 a scanned PDF whose two pages have no
\* text.
PagesData(h) == IF h = "h1" THEN << <<"a", "b", "c">> >> ELSE << <<>>, <<>> >>

\* What RecursiveCharacterTextSplitter.split_text yields for the joined text.
SplitText(h) == IF h = "h1" THEN << <<"a", "b">>, <<"b", "c">> >> ELSE << >>

VARIABLES
    documents,    \* Document table: id -> row
    nextDocId,    \* AutoField sequence of the Document table
    pages,        \* DocumentPage table: set of rows
    nextPageId,   \* AutoField sequence of the DocumentPage table
    chunks,       \* DocumentChunk table: set of rows
    nextChunkId,  \* AutoField sequence of the DocumentChunk table
    qdrant,       \* Qdrant collection written by PDFProcessor.store_vectors
    nextVector,   \* source of fresh uuid4 vector ids
    chroma,       \* Chroma collection read by RAGEngine.retrieve
    queue,        \* broker queue of process_document_task messages
    extractQueue, \* document ids with an enqueued extract_contract_fields_task
    req,          \* per request: position in IngestView.post and its locals
    task,         \* per worker: position in process_document_task and its locals
    uploads,      \* number of uploads started
    failures,     \* number of exceptions raised in process_document_task
    failureLimit, \* number of exceptions the environment raises at most
    askResp,      \* response of the last AskView.post
    returned,     \* per content hash: the document_ids lists ingest responses carried
    extractions,  \* ContractExtraction table: set of rows
    nextExtractionId, \* AutoField sequence of the ContractExtraction table
    ext,          \* per worker: position in extract_contract_fields_task
    extRuns,      \* number of extraction runs started
    extLog,       \* the extractor outputs of the completed runs, in completion order
    findings,     \* AuditFinding table: set of rows
    nextFindingId, \* AutoField sequence of the AuditFinding table
    aud,          \* per request: position in AuditView.post and its locals
    audits,       \* number of audit requests started
    chunkInput,   \* a text and the splitter configuration of a PDFProcessor
    chunkOutput,  \* what chunk_text_with_langchain returned for it
    call,         \* a method called on its own: its name and arguments
    result        \* what the call returned

extractVars == <<extractions, nextExtractionId, ext, extRuns, extLog>>
auditVars == <<findings, nextFindingId, aud, audits>>
chunkVars == <<chunkInput, chunkOutput>>
envVars == <<failureLimit, call, result>>
otherVars == <<extractVars, auditVars, chunkVars, envVars>>

vars == <<documents, nextDocId, pages, nextPageId, chunks, nextChunkId, qdrant,
          nextVector, chroma, queue, extractQueue, req, task, uploads, failures,
          askResp, returned, extractVars, auditVars, chunkVars, envVars>>

NotReturned == [done |-> FALSE]

\* no method is called on its own
NoCall == call = [fn |-> "none"] /\ result = NotReturned

\* ------------------------------------------------------------ Document table

\* Document(...) with the model's field defaults (status 'pending', nulls)
NewDocument(h, f) ==
    [file_hash |-> h, filename |-> f, status |-> "pending", error_message |-> None,
     processed_at |-> None, page_count |-> -1, total_characters |-> -1]

\* ids of the rows whose file_hash is h
DocsWithHash(h) == {d \in DOMAIN documents : documents[d].file_hash = h}

\* a file_hash column without the unique index: every insert is accepted
HashIsFreeNoIndex(h) == TRUE

\* the database's check of file_hash = CharField(unique=True): may a row with
\* this hash be inserted
HashIsFree(h) == DocsWithHash(h) = {}

\* Document.objects.filter(file_hash=h).first()
FirstWithHash(h) ==
    IF DocsWithHash(h) = {} THEN 0
    ELSE CHOOSE d \in DocsWithHash(h) : \A e \in DocsWithHash(h) : d <= e

\* process_document_task.delay(document.id): one more message on the broker
Delay(q, d) == q (+) SetToBag({[doc |-> d, retries |-> 0, countdown |-> 0]})

\* a retry k times the max_retries away: the message is enqueued whatever the
\* number of retries the task has had
RetryWithoutLimit(q, d, retries) ==
    q (+) SetToBag({[doc |-> d, retries |-> retries + 1,
                     countdown |-> RetryBackoff * (retries + 1)]})

\* raise self.retry(exc=e, countdown=60 * (self.request.retries + 1)): the
\* message comes back with one more retry after the countdown, unless the task
\* has had max_retries retries, when the exception is raised for good
Retry(q, d, retries) ==
    IF retries < ProcessMaxRetries
    THEN q (+) SetToBag({[doc |-> d, retries |-> retries + 1,
                          countdown |-> RetryBackoff * (retries + 1)]})
    ELSE q

\* --------------------------------------------------------- IngestView.post

IdleRequest == [pc |-> "idle", file_hash |-> None, filename |-> None,
                existing |-> None, existing_id |-> 0]

\* the request's response is sent: document_ids as collected for the one file
Respond(r, h, ids) ==
    /\ req' = [req EXCEPT ![r] = IdleRequest]
    /\ returned' = [returned EXCEPT ![h] = @ \cup {ids}]

\* str(e) of the exception document.save() raises when the unique index on
\* file_hash rejects the row (the SQLite backend's wording)
UniqueViolation == "UNIQUE constraint failed: documents.file_hash"

\* a test that knows the 'duplicate key' wording only
IsDuplicateErrorOtherWording(e) ==
    e = "duplicate key value violates unique constraint"

\* error_str = str(e).lower();
\* 'unique constraint' in error_str or 'duplicate key' in error_str
IsDuplicateError(e) ==
    e \in {"UNIQUE constraint failed: documents.file_hash",
           "duplicate key value violates unique constraint"}

\* document.save() of a new Document: the row is inserted, or the unique index
\* on file_hash rejects it; a rejection recognised as a duplicate goes on to
\* fetch the existing row, any other error skips the file
IngestSave(r, h, f) ==
    /\ req[r].pc = "idle"
    /\ uploads < MaxUploads
    /\ uploads' = uploads + 1
    /\ IF HashIsFree(h)
       THEN /\ documents' = [d \in DOMAIN documents \cup {nextDocId} |->
                               IF d = nextDocId THEN NewDocument(h, f)
                               ELSE documents[d]]
            /\ nextDocId' = nextDocId + 1
            /\ req' = [req EXCEPT ![r] = [IdleRequest EXCEPT !.pc = "saved",
                                                             !.file_hash = h,
                                                             !.filename = f,
                                                             !.existing_id = nextDocId]]
            /\ UNCHANGED returned
       ELSE IF IsDuplicateError(UniqueViolation)
       THEN /\ req' = [req EXCEPT ![r] = [IdleRequest EXCEPT !.pc = "fetch",
                                                             !.file_hash = h,
                                                             !.filename = f]]
            /\ UNCHANGED <<documents, nextDocId, returned>>
       ELSE /\ Respond(r, h, << >>)
            /\ UNCHANGED <<documents, nextDocId>>
    /\ UNCHANGED <<otherVars, pages, nextPageId, chunks, nextChunkId, qdrant, nextVector, chroma,
                   queue, extractQueue, task, failures, askResp>>

\* the new row's id is appended to document_ids, the processing task is
\* enqueued and the response is sent
IngestEnqueue(r) ==
    /\ req[r].pc = "saved"
    /\ queue' = Delay(queue, req[r].existing_id)
    /\ Respond(r, req[r].file_hash, <<req[r].existing_id>>)
    /\ UNCHANGED <<otherVars, documents, nextDocId, pages, nextPageId, chunks, nextChunkId, qdrant,
                   nextVector, chroma, extractQueue, task, uploads, failures, askResp>>

\* existing_doc = Document.objects.filter(file_hash=file_hash).first(); a row that
\* is not failed is reused as it is, a failed one is saved back in the next step
IngestFetch(r) ==
    /\ req[r].pc = "fetch"
    /\ LET h == req[r].file_hash
           e == FirstWithHash(h)
       IN  IF e = 0
           THEN \* no row: nothing is appended, the unsaved document is enqueued
                /\ queue' = Delay(queue, 0)
                /\ Respond(r, h, << >>)
           ELSE IF documents[e].status = "failed"
           THEN /\ req' = [req EXCEPT ![r].pc = "reset", ![r].existing = documents[e],
                                      ![r].existing_id = e]
                /\ UNCHANGED <<queue, returned>>
           ELSE /\ queue' = Delay(queue, e)
                /\ Respond(r, h, <<e>>)
    /\ UNCHANGED <<otherVars, documents, nextDocId, pages, nextPageId, chunks, nextChunkId, qdrant,
                   nextVector, chroma, extractQueue, task, uploads, failures, askResp>>

\* existing_doc.status = 'pending'; existing_doc.error_message = None;
\* existing_doc.save(): every field of the row is written from the fetched copy
IngestReset(r) ==
    /\ req[r].pc = "reset"
    /\ LET e == req[r].existing_id
       IN  /\ documents' = [documents EXCEPT ![e] =
                               [req[r].existing EXCEPT !.status = "pending",
                                                       !.error_message = None]]
           /\ queue' = Delay(queue, e)
           /\ Respond(r, req[r].file_hash, <<e>>)
    /\ UNCHANGED <<otherVars, nextDocId, pages, nextPageId, chunks, nextChunkId, qdrant, nextVector,
                   chroma, extractQueue, task, uploads, failures, askResp>>

\* ------------------------------------------------------ process_document_task

\* '\n\n'.join([p['text'] for p in pages_data])
RECURSIVE JoinPages(_)
JoinPages(ps) ==
    IF ps = << >> THEN << >>
    ELSE IF Len(ps) = 1 THEN ps[1]
    ELSE ps[1] \o <<"\n", "\n">> \o JoinPages(Tail(ps))

\* PDFProcessor.chunk_text_with_langchain: the splitter's pieces with offsets
\* accumulated from the pieces' lengths
RECURSIVE ChunkOffsets(_, _, _)
ChunkOffsets(texts, index, char_position) ==
    IF texts = << >> THEN << >>
    ELSE << [chunk_index |-> index, text |-> Head(texts),
             char_start |-> char_position,
             char_end |-> char_position + Len(Head(texts))] >>
         \o ChunkOffsets(Tail(texts), index + 1, char_position + Len(Head(texts)))

ChunkTextWithLangchain(h) == ChunkOffsets(SplitText(h), 0, 0)

IdleTask == [pc |-> "idle", doc |-> 0, retries |-> 0, document |-> None,
             vector_ids |-> << >>]

\* no process_document_task message is on the broker for document d and no
\* worker is running one
NoTaskFor(d) ==
    /\ \A m \in BagToSet(queue) : m.doc # d
    /\ \A w \in Workers : task[w].pc = "idle" \/ task[w].doc # d

\* an except block that only retries: the row keeps the status it had
HandleFailureRetryOnly(w, err) ==
    /\ failures < failureLimit
    /\ failures' = failures + 1
    /\ UNCHANGED documents
    /\ queue' = Retry(queue, task[w].doc, task[w].retries)
    /\ task' = [task EXCEPT ![w] = IdleTask]

\* the except block: the row is read again, marked failed with the exception's
\* message and saved; then self.retry re-enqueues while retries are left
HandleFailure(w, err) ==
    LET d == task[w].doc IN
    /\ failures < failureLimit
    /\ failures' = failures + 1
    /\ documents' = IF d \in DOMAIN documents
                    THEN [documents EXCEPT ![d].status = "failed",
                                           ![d].error_message = err]
                    ELSE documents
    /\ queue' = Retry(queue, d, task[w].retries)
    /\ task' = [task EXCEPT ![w] = IdleTask]

\* A worker takes a message: Document.objects.get(id); status = 'processing'; save()
TaskStart(w, m) ==
    /\ task[w].pc = "idle"
    /\ BagIn(m, queue)
    /\ IF m.doc \in DOMAIN documents
       THEN /\ documents' = [documents EXCEPT ![m.doc].status = "processing"]
            /\ task' = [task EXCEPT ![w] =
                          [pc |-> "started", doc |-> m.doc, retries |-> m.retries,
                           document |-> [documents[m.doc] EXCEPT !.status = "processing"],
                           vector_ids |-> << >>]]
            /\ queue' = queue (-) SetToBag({m})
            /\ UNCHANGED failures
       ELSE \* Document.DoesNotExist: the except block finds no row either
            /\ failures < failureLimit
            /\ failures' = failures + 1
            /\ queue' = Retry(queue (-) SetToBag({m}), m.doc, m.retries)
            /\ UNCHANGED <<documents, task>>
    /\ UNCHANGED <<otherVars, nextDocId, pages, nextPageId, chunks, nextChunkId, qdrant,
                   nextVector, chroma, extractQueue, req, uploads, askResp, returned>>

\* a create() in place of the update_or_create on a table without the
\* unique_together: a page row is added every time
InsertPage(rows, d, n, text, id) ==
    rows \cup {[id |-> id, document |-> d, page_number |-> n,
                text_content |-> text, char_count |-> Len(text)]}

\* DocumentPage.objects.update_or_create(document, page_number, defaults) for
\* one page of pages_data: the row of that key is updated, or a row is inserted
UpsertPage(rows, d, n, text, id) ==
    IF \E p \in rows : p.document = d /\ p.page_number = n
    THEN {IF p.document = d /\ p.page_number = n
          THEN [p EXCEPT !.text_content = text, !.char_count = Len(text)]
          ELSE p : p \in rows}
    ELSE rows \cup {[id |-> id, document |-> d, page_number |-> n,
                     text_content |-> text, char_count |-> Len(text)]}

RECURSIVE UpsertPages(_, _, _, _, _)
UpsertPages(rows, d, ps, n, id) ==
    IF n > Len(ps) THEN rows
    ELSE UpsertPages(UpsertPage(rows, d, n, ps[n], id), d, ps, n + 1,
                     id + Cardinality(UpsertPage(rows, d, n, ps[n], id))
                        - Cardinality(rows))

\* a store_vectors that returns its ids without the upsert call
StoreNoVectors(cs, d, first) == {}

\* PDFProcessor.store_vectors: one point per chunk under a fresh uuid4, sent to
\* Qdrant in a single upsert call
StoreVectors(cs, d, first) ==
    {[id |-> first + i - 1, document_id |-> d, chunk_index |-> cs[i].chunk_index,
      char_start |-> cs[i].char_start, char_end |-> cs[i].char_end]
       : i \in 1..Len(cs)}

\* extract_pages_with_langchain, the page upserts, the join, the chunking and
\* store_vectors
TaskStore(w) ==
    /\ task[w].pc = "started"
    /\ LET d == task[w].doc
           ps == PagesData(task[w].document.file_hash)
           rows == UpsertPages(pages, d, ps, 1, nextPageId)
           cs == ChunkTextWithLangchain(task[w].document.file_hash)
       IN  /\ pages' = rows
           /\ nextPageId' = nextPageId + Cardinality(rows) - Cardinality(pages)
           /\ qdrant' = qdrant \cup StoreVectors(cs, d, nextVector)
           /\ nextVector' = nextVector + Len(cs)
           /\ task' = [task EXCEPT ![w].pc = "stored",
                                   ![w].document.page_count = Len(ps),
                                   ![w].document.total_characters = Len(JoinPages(ps)),
                                   ![w].vector_ids =
                                       [i \in 1..Len(cs) |-> nextVector + i - 1]]
    /\ UNCHANGED <<otherVars, documents, nextDocId, chunks, nextChunkId, chroma, queue,
                   extractQueue, req, uploads, failures, askResp, returned>>

\* PyPDFLoader raises: nothing was persisted in this attempt
TaskExtractFail(w) ==
    /\ task[w].pc = "started"
    /\ HandleFailure(w, "extract_pages failed")
    /\ UNCHANGED <<otherVars, nextDocId, pages, nextPageId, chunks, nextChunkId, qdrant,
                   nextVector, chroma, extractQueue, req, uploads, askResp, returned>>

\* generate_embeddings or qdrant_client.upsert raises after the pages were
\* persisted: no point was stored
TaskVectorsFail(w) ==
    /\ task[w].pc = "started"
    /\ LET d == task[w].doc
           ps == PagesData(task[w].document.file_hash)
           rows == UpsertPages(pages, d, ps, 1, nextPageId)
       IN  /\ pages' = rows
           /\ nextPageId' = nextPageId + Cardinality(rows) - Cardinality(pages)
    /\ HandleFailure(w, "store_vectors failed")
    /\ UNCHANGED <<otherVars, nextDocId, chunks, nextChunkId, qdrant, nextVector, chroma,
                   extractQueue, req, uploads, askResp, returned>>

\* a create() in place of the update_or_create: a row is added every time
InsertChunk(rows, d, c, vector_id, id) ==
    rows \cup {[id |-> id, document |-> d, page |-> 0,
                chunk_index |-> c.chunk_index, text_content |-> c.text,
                char_start |-> c.char_start, char_end |-> c.char_end,
                vector_id |-> vector_id]}

\* DocumentChunk.objects.update_or_create(document, chunk_index, defaults) for
\* one chunk; the page foreign key is not among the defaults and stays NULL
UpsertChunk(rows, d, c, vector_id, id) ==
    IF \E x \in rows : x.document = d /\ x.chunk_index = c.chunk_index
    THEN {IF x.document = d /\ x.chunk_index = c.chunk_index
          THEN [x EXCEPT !.text_content = c.text, !.char_start = c.char_start,
                         !.char_end = c.char_end, !.vector_id = vector_id]
          ELSE x : x \in rows}
    ELSE rows \cup {[id |-> id, document |-> d, page |-> 0,
                     chunk_index |-> c.chunk_index, text_content |-> c.text,
                     char_start |-> c.char_start, char_end |-> c.char_end,
                     vector_id |-> vector_id]}

\* the first k iterations of: for chunk, vector_id in zip(chunks, vector_ids)
RECURSIVE UpsertChunks(_, _, _, _, _, _, _)
UpsertChunks(rows, d, cs, vids, i, k, id) ==
    IF i > k THEN rows
    ELSE UpsertChunks(UpsertChunk(rows, d, cs[i], vids[i], id), d, cs, vids, i + 1, k,
                      id + Cardinality(UpsertChunk(rows, d, cs[i], vids[i], id))
                         - Cardinality(rows))

\* a completion that leaves processed_at as it was
CompletedWithoutTimestamp(document) == [document EXCEPT !.status = "completed"]

\* document.status = 'completed'; document.processed_at = timezone.now()
CompletedDocument(document) ==
    [document EXCEPT !.status = "completed", !.processed_at = "now"]

\* all chunk rows are upserted, then status = 'completed', processed_at = now,
\* document.save() of the copy read at the start, and the extraction is enqueued
TaskFinish(w) ==
    /\ task[w].pc = "stored"
    /\ LET d == task[w].doc
           cs == ChunkTextWithLangchain(task[w].document.file_hash)
           rows == UpsertChunks(chunks, d, cs, task[w].vector_ids, 1, Len(cs),
                                nextChunkId)
       IN  /\ chunks' = rows
           /\ nextChunkId' = nextChunkId + Cardinality(rows) - Cardinality(chunks)
           /\ documents' = [documents EXCEPT ![d] = CompletedDocument(task[w].document)]
           /\ extractQueue' = extractQueue \cup {d}
    /\ task' = [task EXCEPT ![w] = IdleTask]
    /\ UNCHANGED <<otherVars, nextDocId, pages, nextPageId, qdrant, nextVector, chroma, queue,
                   req, uploads, failures, askResp, returned>>

\* a chunk upsert raises after k rows were written
TaskChunksFail(w, k) ==
    /\ task[w].pc = "stored"
    /\ LET d == task[w].doc
           cs == ChunkTextWithLangchain(task[w].document.file_hash)
           rows == UpsertChunks(chunks, d, cs, task[w].vector_ids, 1, k, nextChunkId)
       IN  /\ k < Len(cs)
           /\ chunks' = rows
           /\ nextChunkId' = nextChunkId + Cardinality(rows) - Cardinality(chunks)
    /\ HandleFailure(w, "chunk save failed")
    /\ UNCHANGED <<otherVars, nextDocId, pages, nextPageId, qdrant, nextVector, chroma,
                   extractQueue, req, uploads, askResp, returned>>

\* -------------------------------------------------------------- AskView.post

\* Document.objects.get(id=doc_id) raises Document.DoesNotExist
IsMissing(doc_id) == doc_id \notin DOMAIN documents

\* DocumentChunk.objects.filter(document_id=doc_id).exists()
HasChunks(doc_id) == \E c \in chunks : c.document = doc_id

\* found, without chunk rows, status other than 'completed'
IsNotProcessed(doc_id) ==
    /\ ~IsMissing(doc_id)
    /\ ~HasChunks(doc_id)
    /\ documents[doc_id].status # "completed"

\* found, without chunk rows, status 'completed'
IsNoVectors(doc_id) ==
    /\ ~IsMissing(doc_id)
    /\ ~HasChunks(doc_id)
    /\ documents[doc_id].status = "completed"

\* the three lists the loop over document_ids fills, in request order
MissingDocs(document_ids) == SelectSeq(document_ids, IsMissing)
NotProcessed(document_ids) == SelectSeq(document_ids, IsNotProcessed)
NoVectors(document_ids) == SelectSeq(document_ids, IsNoVectors)

AskResponse(document_ids, kind, listed, queried) ==
    [document_ids |-> document_ids, kind |-> kind, listed |-> listed,
     queried |-> queried]

\* the early returns with the first two tests in the other order
PreCheckNotProcessedFirst(document_ids, queried) ==
    IF NotProcessed(document_ids) # << >>
    THEN AskResponse(document_ids, "not_processed", NotProcessed(document_ids), queried)
    ELSE IF MissingDocs(document_ids) # << >>
    THEN AskResponse(document_ids, "not_found", MissingDocs(document_ids), queried)
    ELSE IF NoVectors(document_ids) # << >>
    THEN AskResponse(document_ids, "no_vectors", NoVectors(document_ids), queried)
    ELSE AskResponse(document_ids, "pass", << >>, queried)

\* the early returns on the three lists, or "pass" when all three are empty
PreCheck(document_ids, queried) ==
    IF MissingDocs(document_ids) # << >>
    THEN AskResponse(document_ids, "not_found", MissingDocs(document_ids), queried)
    ELSE IF NotProcessed(document_ids) # << >>
    THEN AskResponse(document_ids, "not_processed", NotProcessed(document_ids), queried)
    ELSE IF NoVectors(document_ids) # << >>
    THEN AskResponse(document_ids, "no_vectors", NoVectors(document_ids), queried)
    ELSE AskResponse(document_ids, "pass", << >>, queried)

\* RAGEngine.retrieve: similarity search on the Chroma store, filtered on the
\* document_id metadata when document_ids is given; [] when the search raises
Retrieve(document_ids, search_ok) ==
    IF ~search_ok THEN {}
    ELSE IF document_ids # << >>
    THEN {v \in chroma : \E i \in 1..Len(document_ids) : v.document_id = document_ids[i]}
    ELSE chroma

\* _extract_citations for one hit: the hit's position, and the page_number of
\* the DocumentChunk row's page when the row is found and has a page
Citation(hit) ==
    LET base == [document_id |-> hit.document_id, chunk_index |-> hit.chunk_index,
                 char_start |-> hit.char_start, char_end |-> hit.char_end]
        rows == {c \in chunks : /\ c.document = hit.document_id
                                /\ c.chunk_index = hit.chunk_index}
    IN  IF rows # {} /\ (CHOOSE c \in rows : TRUE).page # 0
        THEN [k \in DOMAIN base \cup {"page_number"} |->
                 IF k = "page_number"
                 THEN (CHOOSE p \in pages :
                          p.id = (CHOOSE c \in rows : TRUE).page).page_number
                 ELSE base[k]]
        ELSE base

\* generate_answer: the answer with a citation for every retrieved hit
AnswerResponse(document_ids, hits) ==
    [document_ids |-> document_ids, kind |-> "answer", listed |-> << >>,
     queried |-> TRUE, hits |-> hits, citations |-> {Citation(h) : h \in hits}]

\* what post() does once the pre-check let the request through
AfterPreCheck(document_ids, hits) ==
    IF hits = {} /\ document_ids = << >> /\ chunks = {}
    THEN AskResponse(document_ids, "nothing_indexed", << >>, TRUE)
    ELSE IF hits = {}
    THEN IF document_ids # << >> /\ PreCheck(document_ids, TRUE).kind # "pass"
         THEN PreCheck(document_ids, TRUE)
         ELSE AskResponse(document_ids, "no_relevant", << >>, TRUE)
    ELSE AnswerResponse(document_ids, hits)

AskPost(document_ids, search_ok) ==
    IF document_ids # << >> /\ PreCheck(document_ids, FALSE).kind # "pass"
    THEN PreCheck(document_ids, FALSE)
    ELSE AfterPreCheck(document_ids, Retrieve(document_ids, search_ok))

\* the document_ids lists of the modelled requests: no list, and lists of one
\* or two ids among which 3 is an id no Document row ever has
AskDocumentIds ==
    {<< >>} \cup {<<a>> : a \in 1..3}
            \cup {ids \in {<<a, b>> : a, b \in 1..3} : ids[1] # ids[2]}

NoAsk == AskResponse(<< >>, "none", << >>, FALSE)

\* a question is answered from the tables as they are
Ask(document_ids, search_ok) ==
    /\ askResp = NoAsk
    /\ askResp' = AskPost(document_ids, search_ok)
    /\ UNCHANGED <<otherVars, documents, nextDocId, pages, nextPageId, chunks, nextChunkId,
                   qdrant, nextVector, chroma, queue, extractQueue, req, task,
                   uploads, failures, returned>>

\* the response has been sent
AskDone ==
    /\ askResp # NoAsk
    /\ askResp' = NoAsk
    /\ UNCHANGED <<otherVars, documents, nextDocId, pages, nextPageId, chunks, nextChunkId,
                   qdrant, nextVector, chroma, queue, extractQueue, req, task,
                   uploads, failures, returned>>

\* ------------------------------------------------ extract_contract_fields_task

\* n copies of the character c
Rep(c, n) == [i \in 1..n |-> c]

\* s[:n]
Prefix(s, n) == SubSeq(s, 1, IF Len(s) < n THEN Len(s) ELSE n)

\* clause texts: EvA and EvB agree on their first 50 characters and differ in
\* the 51st, EvC differs from both in the 50th
EvA == Rep("x", EvidenceKeyLen) \o <<"1">>
EvB == Rep("x", EvidenceKeyLen) \o <<"2">>
EvC == Rep("x", EvidenceKeyLen - 1) \o <<"1">>

\* What ContractExtractor.extract_fields may return: a dict holding some of the
\* field keys. Of the eleven fields five are modelled, one of each kind: a list
\* (parties), a date (effective_date), a text (term), a dict (auto_renewal) and
\* a list of dicts (signatories). _post_process_extraction turns effective_date
\* into a date; the last output is the one of test_raw_extraction_date_serialized,
\* whose signatory holds a date as well.
ExtractorOutputs ==
    {[parties |-> <<"A">>, effective_date |-> "date(2025, 1, 1)"],
     [parties |-> <<"Acme Corp", "Beta Inc">>, term |-> "2 years",
      auto_renewal |-> [enabled |-> TRUE, notice_days |-> 15, terms |-> EvA]],
     [term |-> "12 months"],
     [parties |-> <<"Acme Corp", "Beta Inc">>, effective_date |-> "date(2024, 1, 1)",
      term |-> "2 years", auto_renewal |-> [enabled |-> FALSE],
      signatories |-> << [name |-> "John Doe", title |-> "CEO",
                          signed_on |-> "date(2024, 2, 1)"] >>]}

\* extracted_data.get(k, default)
Get(data, k, default) == IF k \in DOMAIN data THEN data[k] ELSE default

\* the datetime.date objects of the modelled outputs; every other text is a str
Dates == {"date(2025, 1, 1)", "date(2024, 1, 1)", "date(2024, 2, 1)"}

\* isinstance(obj, (date, datetime))
IsDate(v) == v \in Dates

\* make_json_serializable of a value that is a str, a date or None: a date
\* becomes date.isoformat(), a str or None is returned as it is
Isoformat(v) ==
    CASE v = "date(2025, 1, 1)" -> "2025-01-01"
      [] v = "date(2024, 1, 1)" -> "2024-01-01"
      [] v = "date(2024, 2, 1)" -> "2024-02-01"
      [] OTHER -> v

\* make_json_serializable of a list of such values
SerializableList(l) == [i \in DOMAIN l |-> Isoformat(l[i])]

\* make_json_serializable of a dict of such values
SerializableDict(d) == [k \in DOMAIN d |-> Isoformat(d[k])]

\* make_json_serializable(extracted_data): the recursion over the dict, taken by
\* the shape of each field. auto_renewal holds a bool, an int and a str only,
\* which the function returns as they are.
MakeJsonSerializable(data) ==
    [k \in DOMAIN data |->
        CASE k \in {"effective_date", "term"} -> Isoformat(data[k])
          [] k = "parties" -> SerializableList(data[k])
          [] k = "signatories" ->
                [i \in DOMAIN data[k] |-> SerializableDict(data[k][i])]
          [] OTHER -> data[k]]

\* {} of a JSONField
EmptyDict == [k \in {} |-> None]

\* the defaults dict
ExtractionDefaults(data) ==
    [parties |-> Get(data, "parties", << >>),
     effective_date |-> Get(data, "effective_date", None),
     term |-> Get(data, "term", None),
     auto_renewal |-> Get(data, "auto_renewal", EmptyDict),
     signatories |-> Get(data, "signatories", << >>),
     raw_extraction |-> MakeJsonSerializable(data)]

\* does a list or a dict of texts hold a date
HoldsDate(c) == \E k \in DOMAIN c : IsDate(c[k])

\* json.dumps with the default encoder, which the JSONFields parties,
\* signatories and raw_extraction use when the row is written: a date anywhere
\* in the value raises TypeError
JsonEncodable(defaults) ==
    /\ ~HoldsDate(defaults.parties)
    /\ \A i \in DOMAIN defaults.signatories : ~HoldsDate(defaults.signatories[i])
    /\ \A k \in DOMAIN defaults.raw_extraction \cap {"effective_date", "term"} :
           ~IsDate(defaults.raw_extraction[k])
    /\ "parties" \in DOMAIN defaults.raw_extraction
          => ~HoldsDate(defaults.raw_extraction.parties)
    /\ "signatories" \in DOMAIN defaults.raw_extraction
          => \A i \in DOMAIN defaults.raw_extraction.signatories :
                 ~HoldsDate(defaults.raw_extraction.signatories[i])

\* an update that writes a field only when the run produced a value for it
WriteDefaultsKeepingOld(row, defaults) ==
    [row EXCEPT !.parties = IF defaults.parties = << >> THEN @ ELSE defaults.parties,
                !.effective_date = IF defaults.effective_date = None THEN @
                                   ELSE defaults.effective_date,
                !.term = IF defaults.term = None THEN @ ELSE defaults.term,
                !.auto_renewal = IF defaults.auto_renewal = EmptyDict THEN @
                                 ELSE defaults.auto_renewal,
                !.signatories = IF defaults.signatories = << >> THEN @
                                ELSE defaults.signatories,
                !.raw_extraction = defaults.raw_extraction]

\* for k, v in defaults.items(): setattr(obj, k, v); obj.save()
WriteDefaults(row, defaults) ==
    [row EXCEPT !.parties = defaults.parties,
                !.effective_date = defaults.effective_date,
                !.term = defaults.term,
                !.auto_renewal = defaults.auto_renewal,
                !.signatories = defaults.signatories,
                !.raw_extraction = defaults.raw_extraction]

\* ContractExtraction(document=d, **defaults) as inserted
NewExtraction(id, d, defaults) ==
    [id |-> id, document |-> d, parties |-> defaults.parties,
     effective_date |-> defaults.effective_date, term |-> defaults.term,
     auto_renewal |-> defaults.auto_renewal,
     signatories |-> defaults.signatories,
     raw_extraction |-> defaults.raw_extraction]

ExtractionsOf(d) == {e \in extractions : e.document = d}

\* a document column without the unique index: every insert is accepted
ExtractionIsFreeNoIndex(d) == TRUE

\* the database's check of the OneToOneField's unique index: may a row for
\* this document be inserted
ExtractionIsFree(d) == ExtractionsOf(d) = {}

IdleExtract == [pc |-> "idle", doc |-> 0, data |-> << >>, path |-> "none"]

\* the task returns {'extraction': 'completed'}
ExtractDone(w, data, path) ==
    /\ ext' = [ext EXCEPT ![w] = [IdleExtract EXCEPT !.path = path]]
    /\ extLog' = Append(extLog, data)

\* except Exception: the task logs the error and raises self.retry; nothing of
\* this run is stored
ExtractFail(w) ==
    /\ ext' = [ext EXCEPT ![w] = [IdleExtract EXCEPT !.path = "failed"]]
    /\ UNCHANGED <<extractions, extLog>>

\* the rows of document d rewritten from the defaults
UpdateExtractions(d, defaults) ==
    {IF e.document = d THEN WriteDefaults(e, defaults) ELSE e : e \in extractions}

\* A worker runs the task for document d: the extractor's output, the defaults
\* and update_or_create's lookup; a row that exists is updated in the same
\* transaction, otherwise the insert follows in the next step
ExtractRun(w, d, data) ==
    /\ ext[w].pc = "idle"
    /\ extRuns < MaxExtractRuns
    /\ d \in extractQueue
    /\ d \in DOMAIN documents
    /\ extRuns' = extRuns + 1
    /\ IF ExtractionsOf(d) # {}
       THEN IF JsonEncodable(ExtractionDefaults(data))
            THEN /\ extractions' = UpdateExtractions(d, ExtractionDefaults(data))
                 /\ ExtractDone(w, data, "updated")
            ELSE ExtractFail(w)
       ELSE /\ ext' = [ext EXCEPT ![w] = [pc |-> "create", doc |-> d, data |-> data,
                                          path |-> "none"]]
            /\ UNCHANGED <<extractions, extLog>>
    /\ UNCHANGED <<auditVars, chunkVars, envVars, nextExtractionId, documents, nextDocId, pages, nextPageId,
                   chunks, nextChunkId, qdrant, nextVector, chroma, queue,
                   extractQueue, req, task, uploads, failures, askResp, returned>>

\* the INSERT of update_or_create: the row is created, or the unique index on
\* document raises IntegrityError
ExtractCreate(w) ==
    /\ ext[w].pc = "create"
    /\ IF ~JsonEncodable(ExtractionDefaults(ext[w].data))
       THEN ExtractFail(w) /\ UNCHANGED nextExtractionId
       ELSE IF ExtractionIsFree(ext[w].doc)
       THEN /\ extractions' = extractions \cup
                  {NewExtraction(nextExtractionId, ext[w].doc,
                                 ExtractionDefaults(ext[w].data))}
            /\ nextExtractionId' = nextExtractionId + 1
            /\ ExtractDone(w, ext[w].data, "created")
       ELSE /\ ext' = [ext EXCEPT ![w].pc = "fallback"]
            /\ UNCHANGED <<extractions, nextExtractionId, extLog>>
    /\ UNCHANGED <<auditVars, chunkVars, envVars, extRuns, documents, nextDocId, pages, nextPageId, chunks,
                   nextChunkId, qdrant, nextVector, chroma, queue, extractQueue,
                   req, task, uploads, failures, askResp, returned>>

\* except IntegrityError: existing = ContractExtraction.objects.get(document);
\* setattr for every default; existing.save()
ExtractFallback(w) ==
    /\ ext[w].pc = "fallback"
    /\ extractions' = UpdateExtractions(ext[w].doc, ExtractionDefaults(ext[w].data))
    /\ ExtractDone(w, ext[w].data, "fallback")
    /\ UNCHANGED <<auditVars, chunkVars, envVars, nextExtractionId, extRuns, documents, nextDocId, pages,
                   nextPageId, chunks, nextChunkId, qdrant, nextVector, chroma,
                   queue, extractQueue, req, task, uploads, failures, askResp,
                   returned>>

\* ---------------------------------------------------------------- AuditEngine

\* settings.AUDIT_MODE
AuditModes == {"rules_only", "llm_only", "hybrid"}

\* characters of the modelled texts that stand for a clause one of the
\* unlimited_liability_patterns / broad_indemnity_patterns matches
UnlimitedLiabilityClauses == {"b"}
BroadIndemnityClauses == {"i"}

\* re.search over the pattern list: the 1-based position of the first match, 0
\* when no pattern matches
FirstMatch(clauses, text) ==
    IF \E i \in 1..Len(text) : text[i] \in clauses
    THEN CHOOSE i \in 1..Len(text) :
             /\ text[i] \in clauses
             /\ \A j \in 1..(i - 1) : text[j] \notin clauses
    ELSE 0

\* text[max(0, match.start()-100):min(len(text), match.end()+100)] for the
\* one-character match at position i
EvidenceAround(text, i) ==
    SubSeq(text,
           (IF i - 1 - EvidenceWindow < 0 THEN 0 ELSE i - 1 - EvidenceWindow) + 1,
           IF Len(text) < i + EvidenceWindow THEN Len(text) ELSE i + EvidenceWindow)

Finding(risk_type, severity, evidence, detection_method) ==
    [risk_type |-> risk_type, severity |-> severity, evidence |-> evidence,
     detection_method |-> detection_method]

\* _rule_based_audit: the auto-renewal rule on the extraction, the two pattern
\* rules on the text; extracted_data is the empty dict when there is none
RuleBasedAudit(text, extracted_data) ==
    LET auto_renewal == Get(extracted_data, "auto_renewal", EmptyDict)
        notice_days == Get(auto_renewal, "notice_days", 0)
        rule1 == IF /\ Get(auto_renewal, "enabled", FALSE)
                    /\ notice_days # 0
                    /\ notice_days < MinNoticeDays
                 THEN << Finding("auto_renewal", "high",
                                 Get(auto_renewal, "terms",
                                     <<"Auto-renewal clause detected">>),
                                 "rules") >>
                 ELSE << >>
        m2 == FirstMatch(UnlimitedLiabilityClauses, text)
        rule2 == IF m2 # 0
                 THEN << Finding("unlimited_liability", "critical",
                                 EvidenceAround(text, m2), "rules") >>
                 ELSE << >>
        m3 == FirstMatch(BroadIndemnityClauses, text)
        rule3 == IF m3 # 0
                 THEN << Finding("broad_indemnity", "high",
                                 EvidenceAround(text, m3), "rules") >>
                 ELSE << >>
    IN  rule1 \o rule2 \o rule3

\* the findings an LLM response may carry: json.loads accepts any list of
\* objects, so a finding may lack a key the schema requires. The API call
\* failing, arguments that do not parse and arguments without 'findings' all
\* give the empty list.
LlmFindingChoices ==
    {[risk_type |-> "auto_renewal", severity |-> "medium", evidence |-> EvB],
     [risk_type |-> "auto_renewal", severity |-> "low", evidence |-> EvC],
     [risk_type |-> "unlimited_liability", severity |-> "high",
      evidence |-> <<"a", "b", "c">>],
     [risk_type |-> "other", severity |-> "critical", evidence |-> EvA],
     [risk_type |-> "other", severity |-> "high"]}

LlmResponses ==
    UNION {[1..n -> LlmFindingChoices] : n \in 0..MaxLlmFindings}

\* _llm_based_audit: finding['detection_method'] = 'llm' on each finding
LlmBasedAudit(response) ==
    [i \in 1..Len(response) |->
        [k \in DOMAIN response[i] \cup {"detection_method"} |->
            IF k = "detection_method" THEN "llm" ELSE response[i][k]]]

\* findings.extend(rule_findings); findings.extend(llm_findings)
CollectFindings(mode, text, extracted_data, response) ==
    (IF mode \in {"rules_only", "hybrid"}
     THEN RuleBasedAudit(text, extracted_data) ELSE << >>)
    \o (IF mode \in {"llm_only", "hybrid"} THEN LlmBasedAudit(response) ELSE << >>)

\* a key that leaves the evidence out
FindingKeyByType(f) == <<f.risk_type, << >> >>

\* key = (finding['risk_type'], finding['evidence'][:50])
FindingKey(f) == <<f.risk_type, Prefix(f.evidence, EvidenceKeyLen)>>

RECURSIVE DeduplicateSeen(_, _)
DeduplicateSeen(fs, seen) ==
    IF fs = << >> THEN << >>
    ELSE IF FindingKey(Head(fs)) \in seen THEN DeduplicateSeen(Tail(fs), seen)
    ELSE <<Head(fs)>> \o DeduplicateSeen(Tail(fs), seen \cup {FindingKey(Head(fs))})

\* _deduplicate_findings
DeduplicateFindings(fs) == DeduplicateSeen(fs, {})

\* _severity_rank
SeverityRank(severity) ==
    CASE severity = "critical" -> 4
      [] severity = "high" -> 3
      [] severity = "medium" -> 2
      [] severity = "low" -> 1
      [] OTHER -> 0

OfRank(fs, r) == SelectSeq(fs, LAMBDA f : SeverityRank(f.severity) = r)

\* sorted(findings, key=_severity_rank, reverse=True): stable, highest first
SortBySeverity(fs) ==
    OfRank(fs, 4) \o OfRank(fs, 3) \o OfRank(fs, 2) \o OfRank(fs, 1) \o OfRank(fs, 0)

\* audit_contract raises KeyError: finding['risk_type'] or finding['evidence']
\* in _deduplicate_findings for a finding without the key, x['severity'] in the
\* sort for a finding that the deduplication kept
AuditContractRaises(mode, text, extracted_data, response) ==
    LET fs == CollectFindings(mode, text, extracted_data, response)
    IN  \/ \E i \in 1..Len(fs) : {"risk_type", "evidence"} \ DOMAIN fs[i] # {}
        \/ LET unique == DeduplicateFindings(fs)
           IN  \E i \in 1..Len(unique) : "severity" \notin DOMAIN unique[i]

\* audit_contract
AuditContract(mode, text, extracted_data, response) ==
    SortBySeverity(DeduplicateFindings(
        CollectFindings(mode, text, extracted_data, response)))

\* ------------------------------------------------------------- AuditView.post

FindingsOf(d) == {f \in findings : f.document = d}

\* AuditFinding.to_dict
FindingToDict(f) ==
    [id |-> f.id, risk_type |-> f.risk_type, severity |-> f.severity,
     evidence |-> f.evidence_text, detection_method |-> f.detection_method]

\* position of a severity string in ascending string order
SeverityOrder(severity) ==
    CASE severity = "critical" -> 1
      [] severity = "high" -> 2
      [] severity = "low" -> 3
      [] severity = "medium" -> 4
      [] OTHER -> 0

\* Meta.ordering = ['-severity', '-created_at']: the later created row has the
\* higher id
ComesFirst(f, g) ==
    \/ SeverityOrder(f.severity) > SeverityOrder(g.severity)
    \/ SeverityOrder(f.severity) = SeverityOrder(g.severity) /\ f.id >= g.id

RECURSIVE InMetaOrdering(_)
InMetaOrdering(rows) ==
    IF rows = {} THEN << >>
    ELSE LET f == CHOOSE x \in rows : \A y \in rows : ComesFirst(x, y)
         IN  <<f>> \o InMetaOrdering(rows \ {f})

\* [f.to_dict() for f in existing_findings]
CachedFindings(d) ==
    LET rows == InMetaOrdering(FindingsOf(d))
    IN  [i \in 1..Len(rows) |-> FindingToDict(rows[i])]

\* document.pages.all().order_by('page_number') joined by blank lines
FullText(d) ==
    LET ps == {p \in pages : p.document = d}
    IN  JoinPages([n \in 1..Cardinality(ps) |->
                      (CHOOSE p \in ps : p.page_number = n).text_content])

\* extraction.raw_extraction, the empty dict standing for None when the
\* document has no ContractExtraction row
ExtractedData(d) ==
    IF \E e \in extractions : e.document = d
    THEN (CHOOSE e \in extractions : e.document = d).raw_extraction
    ELSE EmptyDict

\* AuditFinding.objects.create(...) for each finding, in list order
NewFindings(fs, d, first) ==
    [i \in 1..Len(fs) |->
        [id |-> first + i - 1, document |-> d, risk_type |-> fs[i].risk_type,
         severity |-> fs[i].severity,
         evidence_text |-> Prefix(fs[i].evidence, EvidenceTextMax),
         detection_method |-> fs[i].detection_method]]

AuditResponse(kind, fs, detectors) ==
    [kind |-> kind, findings |-> fs, detectors |-> detectors]

NoAudit == AuditResponse("none", << >>, FALSE)

IdleAudit == [pc |-> "idle", document_id |-> 0, collected |-> << >>,
              computed |-> << >>, resp |-> NoAudit]

\* the request up to audit_contract: the document lookup, the status check, the
\* cached findings, or the detectors run on the text and the extraction
AuditBegin(a, d, mode, response) ==
    /\ aud[a].pc = "idle"
    /\ audits < MaxAudits
    /\ audits' = audits + 1
    /\ aud' = [aud EXCEPT ![a] =
          IF d \notin DOMAIN documents
          THEN [IdleAudit EXCEPT !.document_id = d,
                                 !.resp = AuditResponse("not_found", << >>, FALSE)]
          ELSE IF documents[d].status # "completed"
          THEN [IdleAudit EXCEPT !.document_id = d,
                                 !.resp = AuditResponse("not_ready", << >>, FALSE)]
          ELSE IF FindingsOf(d) # {}
          THEN [IdleAudit EXCEPT !.document_id = d,
                                 !.resp = AuditResponse("findings", CachedFindings(d),
                                                        FALSE)]
          ELSE IF AuditContractRaises(mode, FullText(d), ExtractedData(d), response)
          THEN [IdleAudit EXCEPT !.document_id = d,
                                 !.resp = AuditResponse("server_error", << >>, TRUE)]
          ELSE [pc |-> "save", document_id |-> d,
                collected |-> CollectFindings(mode, FullText(d), ExtractedData(d),
                                              response),
                computed |-> AuditContract(mode, FullText(d), ExtractedData(d),
                                           response),
                resp |-> NoAudit]]
    /\ UNCHANGED <<extractVars, chunkVars, envVars, findings, nextFindingId, documents, nextDocId, pages,
                   nextPageId, chunks, nextChunkId, qdrant, nextVector, chroma,
                   queue, extractQueue, req, task, uploads, failures, askResp,
                   returned>>

\* the findings are saved and returned as saved
AuditSave(a) ==
    /\ aud[a].pc = "save"
    /\ LET rows == NewFindings(aud[a].computed, aud[a].document_id, nextFindingId)
       IN  /\ findings' = findings \cup {rows[i] : i \in 1..Len(rows)}
           /\ nextFindingId' = nextFindingId + Len(rows)
           /\ aud' = [aud EXCEPT ![a] =
                 [IdleAudit EXCEPT !.document_id = aud[a].document_id,
                                   !.resp = AuditResponse("findings",
                                       [i \in 1..Len(rows) |-> FindingToDict(rows[i])],
                                       TRUE)]]
    /\ UNCHANGED <<extractVars, chunkVars, envVars, audits, documents, nextDocId, pages, nextPageId, chunks,
                   nextChunkId, qdrant, nextVector, chroma, queue, extractQueue,
                   req, task, uploads, failures, askResp, returned>>

\* ------------------------------------------- chunk_text_with_langchain alone

\* RecursiveCharacterTextSplitter.split_text on a text that holds none of the
\* separators: the characters are merged into pieces of chunk_size characters,
\* each piece after the first starting with the last chunk_overlap characters
\* of the piece before it (at most chunk_size - 1 of them); start is the
\* 0-based position of the next piece
RECURSIVE SplitWindows(_, _, _, _)
SplitWindows(text, start, chunk_size, chunk_overlap) ==
    IF text = << >> THEN << >>
    ELSE IF start + chunk_size >= Len(text)
    THEN << SubSeq(text, start + 1, Len(text)) >>
    ELSE << SubSeq(text, start + 1, start + chunk_size) >>
         \o SplitWindows(text,
                         start + chunk_size
                           - (IF chunk_overlap < chunk_size THEN chunk_overlap
                              ELSE chunk_size - 1),
                         chunk_size, chunk_overlap)

\* the texts and splitter configurations chunk_text_with_langchain is applied
\* to: texts of up to MaxTextLen characters, chunk_overlap below chunk_size
Texts == UNION {[1..n -> {"a", "b"}] : n \in 0..MaxTextLen}
ChunkInputs ==
    {in \in [text : Texts, chunk_size : 1..MaxChunkSize,
             chunk_overlap : 0..(MaxChunkSize - 1)] :
        in.chunk_overlap < in.chunk_size}

NotChunked == [done |-> FALSE, chunks |-> << >>]

NoChunking ==
    /\ chunkInput = [text |-> << >>, chunk_size |-> 1, chunk_overlap |-> 0]
    /\ chunkOutput = NotChunked

\* chunks = self.text_splitter.split_text(text), then the loop over the pieces
ChunkText ==
    /\ ~chunkOutput.done
    /\ chunkOutput' =
          [done |-> TRUE,
           chunks |-> ChunkOffsets(SplitWindows(chunkInput.text, 0,
                                                chunkInput.chunk_size,
                                                chunkInput.chunk_overlap), 0, 0)]
    /\ UNCHANGED <<extractVars, auditVars, envVars, chunkInput, documents, nextDocId, pages,
                   nextPageId, chunks, nextChunkId, qdrant, nextVector, chroma,
                   queue, extractQueue, req, task, uploads, failures, askResp,
                   returned>>


\* ------------------------------------------------------------ specification

\* the tables, queues and handlers of a fresh deployment
InitState ==
    /\ documents = << >>
    /\ nextDocId = 1
    /\ pages = {}
    /\ nextPageId = 1
    /\ chunks = {}
    /\ nextChunkId = 1
    /\ qdrant = {}
    /\ nextVector = 1
    /\ queue = EmptyBag
    /\ extractQueue = {}
    /\ req = [r \in Requests |-> IdleRequest]
    /\ task = [w \in Workers |-> IdleTask]
    /\ uploads = 0
    /\ failures = 0
    /\ askResp = [document_ids |-> << >>, kind |-> "none", listed |-> << >>,
                  queried |-> FALSE]
    /\ returned = [h \in Hashes |-> {}]
    /\ extractions = {}
    /\ nextExtractionId = 1
    /\ ext = [w \in Workers |-> IdleExtract]
    /\ extRuns = 0
    /\ extLog = << >>
    /\ findings = {}
    /\ nextFindingId = 1
    /\ aud = [a \in Requests |-> IdleAudit]
    /\ audits = 0

InitBase == InitState /\ failureLimit = MaxFailures /\ NoCall

Init == InitBase /\ chroma = {} /\ NoChunking

IngestBy(R) ==
    \/ \E r \in R, h \in Hashes, f \in Filenames : IngestSave(r, h, f)
    \/ \E r \in R : IngestEnqueue(r)
    \/ \E r \in R : IngestFetch(r)
    \/ \E r \in R : IngestReset(r)

ProcessBy(W) ==
    \/ \E w \in W : \E m \in BagToSet(queue) : TaskStart(w, m)
    \/ \E w \in W : TaskStore(w)
    \/ \E w \in W : TaskExtractFail(w)
    \/ \E w \in W : TaskVectorsFail(w)
    \/ \E w \in W : TaskFinish(w)
    \/ \E w \in W : \E k \in 0..1 : TaskChunksFail(w, k)

\* uploads and processing, two requests and two workers at a time
Next == IngestBy(Requests) \/ ProcessBy(Workers)

Spec == Init /\ [][Next]_vars

\* What the Chroma directory may hold when the service starts: nothing, or
\* vectors left there by earlier runs (the service itself never writes to it)
ChromaContents ==
    {{}, {[document_id |-> 1, chunk_index |-> 0, char_start |-> 0, char_end |-> 2]}}

InitAsk == InitBase /\ chroma \in ChromaContents /\ NoChunking

\* questions asked, one at a time, between the steps of one uploading request
\* and one worker
NextAsk ==
    \/ \E h \in Hashes, f \in Filenames : askResp = NoAsk /\ IngestSave("r1", h, f)
    \/ askResp = NoAsk /\ IngestEnqueue("r1")
    \/ askResp = NoAsk /\ IngestFetch("r1")
    \/ askResp = NoAsk /\ IngestReset("r1")
    \/ \E m \in BagToSet(queue) : askResp = NoAsk /\ TaskStart("w1", m)
    \/ askResp = NoAsk /\ TaskStore("w1")
    \/ askResp = NoAsk /\ TaskExtractFail("w1")
    \/ askResp = NoAsk /\ TaskVectorsFail("w1")
    \/ askResp = NoAsk /\ TaskFinish("w1")
    \/ \E k \in 0..1 : askResp = NoAsk /\ TaskChunksFail("w1", k)
    \/ \E ids \in AskDocumentIds, search_ok \in BOOLEAN : Ask(ids, search_ok)
    \/ AskDone

SpecAsk == InitAsk /\ [][NextAsk]_vars

\* ExtractRun, ExtractCreate and ExtractFallback by the workers of W
ExtractBy(W) ==
    \/ \E w \in W, d \in extractQueue, data \in ExtractorOutputs : ExtractRun(w, d, data)
    \/ \E w \in W : ExtractCreate(w)
    \/ \E w \in W : ExtractFallback(w)

\* The tables once contract.pdf (content h1) has been uploaded and processed
\* and its extraction task enqueued: a state Spec reaches
Processed ==
    /\ documents = << [NewDocument("h1", "contract.pdf") EXCEPT
                          !.status = "completed", !.processed_at = "now",
                          !.page_count = 1, !.total_characters = 3] >>
    /\ nextDocId = 2
    /\ pages = UpsertPages({}, 1, PagesData("h1"), 1, 1)
    /\ nextPageId = 2
    /\ chunks = UpsertChunks({}, 1, ChunkTextWithLangchain("h1"), <<1, 2>>, 1, 2, 1)
    /\ nextChunkId = 3
    /\ qdrant = StoreVectors(ChunkTextWithLangchain("h1"), 1, 1)
    /\ nextVector = 3
    /\ chroma = {}
    /\ queue = EmptyBag
    /\ extractQueue = {1}
    /\ req = [r \in Requests |-> IdleRequest]
    /\ task = [w \in Workers |-> IdleTask]
    /\ uploads = 1
    /\ failures = 0
    /\ failureLimit = MaxFailures
    /\ NoCall
    /\ askResp = NoAsk
    /\ returned = [h \in Hashes |-> IF h = "h1" THEN {<<1>>} ELSE {}]

NoExtractions ==
    /\ extractions = {}
    /\ nextExtractionId = 1
    /\ ext = [w \in Workers |-> IdleExtract]
    /\ extRuns = 0
    /\ extLog = << >>

NoAudits ==
    /\ findings = {}
    /\ nextFindingId = 1
    /\ aud = [a \in Requests |-> IdleAudit]
    /\ audits = 0

InitExtract == Processed /\ NoExtractions /\ NoAudits /\ NoChunking

\* the extraction task run by two workers on the processed document
NextExtract == ExtractBy(Workers)

SpecExtract == InitExtract /\ [][NextExtract]_vars

\* the ContractExtraction row an extraction run with this output leaves
Extracted(data) ==
    /\ JsonEncodable(ExtractionDefaults(data))
    /\ extractions = {NewExtraction(1, 1, ExtractionDefaults(data))}
    /\ nextExtractionId = 2
    /\ ext = [w \in Workers |-> IdleExtract]
    /\ extRuns = 0
    /\ extLog = << >>

\* the processed document, audited before or after its extraction has run
InitAudit ==
    /\ Processed
    /\ NoAudits
    /\ NoChunking
    /\ \/ NoExtractions
       \/ \E data \in ExtractorOutputs : "auto_renewal" \in DOMAIN data /\ Extracted(data)

AuditBy(A) ==
    \/ \E a \in A, d \in 1..2, mode \in AuditModes, response \in LlmResponses :
           AuditBegin(a, d, mode, response)
    \/ \E a \in A : AuditSave(a)

\* audit requests, one at a time
NextAudit == AuditBy({"r1"})

SpecAudit == InitAudit /\ [][NextAudit]_vars

\* audit requests of two clients at a time
NextAuditPair == AuditBy(Requests)

SpecAuditPair == InitAudit /\ [][NextAuditPair]_vars

\* audit requests between the steps of one further upload and its processing
NextReaudit ==
    \/ AuditBy({"r1"})
    \/ \E h \in Hashes, f \in Filenames : IngestSave("r1", h, f)
    \/ IngestEnqueue("r1")
    \/ IngestFetch("r1")
    \/ ProcessBy({"w1"})

SpecReaudit == InitAudit /\ [][NextReaudit]_vars

\* one client and one worker, with exceptions enough to exhaust the retries of
\* a task
InitRetry ==
    /\ InitState
    /\ failureLimit = MaxTaskFailures
    /\ NoCall
    /\ chroma = {}
    /\ NoChunking

NextRetry ==
    \/ \E h \in Hashes, f \in Filenames : IngestSave("r1", h, f)
    \/ IngestEnqueue("r1")
    \/ IngestFetch("r1")
    \/ IngestReset("r1")
    \/ ProcessBy({"w1"})

SpecRetry == InitRetry /\ [][NextRetry]_vars

\* the same under fair scheduling: a request handler that has begun runs to its
\* response, and the Celery worker goes on taking the messages of its queue
\* and carries each task it took to its end
SpecRetryFair ==
    /\ SpecRetry
    /\ WF_vars(IngestBy({"r1"}))
    /\ WF_vars(ProcessBy({"w1"}))

\* the chunker applied to one text under one splitter configuration
InitChunk ==
    /\ InitBase
    /\ chroma = {}
    /\ chunkInput \in ChunkInputs
    /\ chunkOutput = NotChunked

NextChunk == ChunkText

SpecChunk == InitChunk /\ [][NextChunk]_vars

\* the auto_renewal values of an extraction: an empty dict, a dict without
\* notice_days, and dicts with a notice_days from below zero to above the limit
AutoRenewals ==
    {EmptyDict} \cup [enabled : BOOLEAN]
                \cup [enabled : BOOLEAN, notice_days : (-2)..MaxNoticeDays]

\* _rule_based_audit called on a text without risky clauses and an extraction
RuleCalls ==
    {[fn |-> "_rule_based_audit", text |-> <<"a">>, extracted_data |-> e] :
        e \in {EmptyDict} \cup {[auto_renewal |-> r] : r \in AutoRenewals}}

InitRule ==
    /\ InitState
    /\ failureLimit = MaxFailures
    /\ chroma = {}
    /\ NoChunking
    /\ call \in RuleCalls
    /\ result = NotReturned

RuleAudit ==
    /\ call.fn = "_rule_based_audit"
    /\ ~result.done
    /\ result' = [done |-> TRUE,
                  findings |-> RuleBasedAudit(call.text, call.extracted_data)]
    /\ UNCHANGED <<extractVars, auditVars, chunkVars, failureLimit, call, documents,
                   nextDocId, pages, nextPageId, chunks, nextChunkId, qdrant,
                   nextVector, chroma, queue, extractQueue, req, task, uploads,
                   failures, askResp, returned>>

NextRule == RuleAudit

SpecRule == InitRule /\ [][NextRule]_vars

\* PDFProcessor.delete_document_vectors: the points whose payload document_id
\* is d are deleted; when the Qdrant call raises, the error is logged and
\* nothing is deleted
DeleteDocumentVectors(index, d, delete_ok) ==
    IF delete_ok THEN {v \in index : v.document_id # d} ELSE index

\* what api.signals does when a Document row has been deleted: the vector
\* index is asked to delete all of the document's entries
OnDocumentDeleted(index, d, delete_ok) == DeleteDocumentVectors(index, d, delete_ok)

\* a Document on which nothing is at work is deleted in the admin site: the
\* delete cascades to its pages, chunks, extraction and findings
AdminDeleteDocument(d, delete_ok) ==
    /\ d \in DOMAIN documents
    /\ NoTaskFor(d)
    /\ \A r \in Requests : req[r].pc = "idle"
    /\ documents' = [e \in DOMAIN documents \ {d} |-> documents[e]]
    /\ pages' = {p \in pages : p.document # d}
    /\ chunks' = {c \in chunks : c.document # d}
    /\ extractions' = {e \in extractions : e.document # d}
    /\ findings' = {f \in findings : f.document # d}
    /\ qdrant' = OnDocumentDeleted(qdrant, d, delete_ok)
    /\ UNCHANGED <<chunkVars, envVars, nextExtractionId, ext, extRuns, extLog,
                   nextFindingId, aud, audits, nextDocId, nextPageId, nextChunkId,
                   nextVector, chroma, queue, extractQueue, req, task, uploads,
                   failures, askResp, returned>>

\* uploads and processing by one client and one worker, and deletions
NextDelete ==
    \/ IngestBy({"r1"})
    \/ ProcessBy({"w1"})
    \/ \E d \in 1..MaxUploads, delete_ok \in BOOLEAN : AdminDeleteDocument(d, delete_ok)

SpecDelete == Init /\ [][NextDelete]_vars

\* a Chroma store of three vectors, of two documents
IndexedVectors ==
    {[document_id |-> 1, chunk_index |-> 0, char_start |-> 0, char_end |-> 2],
     [document_id |-> 1, chunk_index |-> 1, char_start |-> 2, char_end |-> 4],
     [document_id |-> 2, chunk_index |-> 0, char_start |-> 0, char_end |-> 2]}

\* vector_store.similarity_search(question, k=top_k): the k vectors nearest to
\* the question, nearest first; the store decides the order of vectors that
\* are equally near
SimilaritySearch(index, similarity, top_k) ==
    LET n == IF Cardinality(index) < top_k THEN Cardinality(index) ELSE top_k
    IN  {docs \in [1..n -> index] :
            /\ \A i, j \in 1..n : i < j =>
                   /\ docs[i] # docs[j]
                   /\ similarity[docs[i]] >= similarity[docs[j]]
            /\ \A v \in index \ {docs[i] : i \in 1..n} :
                   \A i \in 1..n : similarity[docs[i]] >= similarity[v]}

\* the chunk_data of retrieve for one search result:
\* 'score': doc.metadata.get('score', 0.0) of metadata that holds no score
ChunkData(doc) ==
    [document_id |-> doc.document_id, chunk_index |-> doc.chunk_index,
     char_start |-> doc.char_start, char_end |-> doc.char_end, score |-> 0]

\* retrieve called without document_ids, for a question that gives each stored
\* vector a similarity
RetrieveCalls ==
    [fn : {"retrieve"}, similarity : [IndexedVectors -> 0..MaxSimilarity],
     top_k : 1..MaxTopK]

InitRetrieve ==
    /\ InitState
    /\ failureLimit = MaxFailures
    /\ chroma = IndexedVectors
    /\ NoChunking
    /\ call \in RetrieveCalls
    /\ result = NotReturned

RetrieveChunks ==
    /\ call.fn = "retrieve"
    /\ ~result.done
    /\ \E docs \in SimilaritySearch(chroma, call.similarity, call.top_k) :
           result' = [done |-> TRUE,
                      chunks |-> [i \in 1..Len(docs) |-> ChunkData(docs[i])]]
    /\ UNCHANGED <<extractVars, auditVars, chunkVars, failureLimit, call, documents,
                   nextDocId, pages, nextPageId, chunks, nextChunkId, qdrant,
                   nextVector, chroma, queue, extractQueue, req, task, uploads,
                   failures, askResp, returned>>

NextRetrieve == RetrieveChunks

SpecRetrieve == InitRetrieve /\ [][NextRetrieve]_vars

\* ------------------------------------------------------------------ claims

Range(seq) == {seq[i] : i \in 1..Len(seq)}

\* C1: however often the same bytes are uploaded, under whatever filenames, at
\* most one Document row carries their hash, and every ingest response for that
\* content lists exactly the id of that one row.
C1_OneRowPerHash ==
    \A h \in Hashes :
        /\ Cardinality({d \in DOMAIN documents : documents[d].file_hash = h}) <= 1
        /\ \A ids \in returned[h] :
               /\ Len(ids) = 1
               /\ ids[1] \in DOMAIN documents
               /\ documents[ids[1]].file_hash = h

\* both uploads of the behaviour carried the bytes h1 and both were answered
\* with the id of the one row (h2 was never uploaded)
C1_Witness ==
    /\ uploads = 2
    /\ returned["h1"] = {<<1>>}
    /\ DOMAIN documents = {1}
    /\ \A r \in Requests : req[r].pc = "idle"
    /\ documents[1].filename = "contract.pdf"

\* C2: when a request answers while another request for the same bytes is
\* still in flight, it answers with the id of the single row of that hash (no
\* uniqueness violation reaches the caller), and at all times the answers
\* given for a hash all name the one row that carries it.
C2_ConcurrentDuplicateUploads ==
    /\ [](\A h \in Hashes :
             /\ Cardinality({d \in DOMAIN documents : documents[d].file_hash = h}) <= 1
             /\ \A ids \in returned[h] :
                    ids \in {<<d>> : d \in {e \in DOMAIN documents :
                                                documents[e].file_hash = h}})
    /\ [][\A r \in Requests : \A o \in Requests \ {r} :
             (/\ req[r].pc # "idle"
              /\ req'[r].pc = "idle"
              /\ req[o].pc # "idle"
              /\ req[o].file_hash = req[r].file_hash)
             => \E d \in DOMAIN documents' :
                    /\ {e \in DOMAIN documents' :
                           documents'[e].file_hash = req[r].file_hash} = {d}
                    /\ returned'[req[r].file_hash] = {<<d>>}]_vars

\* the request that lost the insert race has answered with the winner's row
\* while the winner, its row inserted, has not answered yet
C2_Witness ==
    \E r \in Requests : \E o \in Requests \ {r} :
        /\ req[r].pc = "saved"
        /\ req[o].pc = "idle"
        /\ uploads = 2
        /\ returned[req[r].file_hash] = {<<req[r].existing_id>>}

\* C3: a resubmission resets a failed Document to pending with its error
\* message cleared, and no step of an upload request or of the processing task
\* it enqueues takes a completed Document out of completed.
C3_CompletedStaysCompleted ==
    [][\A d \in DOMAIN documents :
          /\ (\E r \in Requests :
                 req[r].pc = "reset" /\ req'[r].pc = "idle" /\ req[r].existing_id = d)
              => (documents'[d].status = "pending"
                  /\ documents'[d].error_message = None)
          /\ documents[d].status = "completed"
              => documents'[d].status = "completed"]_vars

\* C4: for a request with document_ids the first non-empty of the three lists
\* decides the response: the ids without a row (not found), else the ids whose
\* row has no chunk rows and is not completed (not processed), else the ids
\* whose row is completed without chunk rows (no vectors); each lists exactly
\* those ids and is returned before the vector store is queried.
C4_PreconditionPriority ==
    (askResp.kind # "none" /\ askResp.document_ids # << >>) =>
        LET ids == Range(askResp.document_ids)
            missing == {d \in ids : d \notin DOMAIN documents}
            found == ids \ missing
            bare == {d \in found : ~\E c \in chunks : c.document = d}
            pending == {d \in bare : documents[d].status # "completed"}
            gap == {d \in bare : documents[d].status = "completed"}
        IN  /\ missing # {} =>
                 /\ askResp.kind = "not_found"
                 /\ Range(askResp.listed) = missing
            /\ (missing = {} /\ pending # {}) =>
                 /\ askResp.kind = "not_processed"
                 /\ Range(askResp.listed) = pending
            /\ (missing = {} /\ pending = {} /\ gap # {}) =>
                 /\ askResp.kind = "no_vectors"
                 /\ Range(askResp.listed) = gap
            /\ (missing # {} \/ pending # {} \/ gap # {}) => ~askResp.queried

\* a request naming a document that is not processed and one that is completed
\* without chunks got the not-processed response listing only the former
C4_Witness ==
    /\ askResp.kind = "not_processed"
    /\ Len(askResp.document_ids) = 2
    /\ Len(askResp.listed) = 1
    /\ \E d \in Range(askResp.document_ids) :
           /\ d \in DOMAIN documents
           /\ documents[d].status = "completed"
           /\ ~\E c \in chunks : c.document = d

\* C5: a request naming only existing documents, one of which has not reached
\* completed, gets the not-processed response listing that document.
C5_NotCompletedIsNotReady ==
    (askResp.kind # "none" /\ askResp.document_ids # << >>) =>
        \A d \in Range(askResp.document_ids) :
            (/\ Range(askResp.document_ids) \subseteq DOMAIN documents
             /\ documents[d].status # "completed")
            => (askResp.kind = "not_processed" /\ d \in Range(askResp.listed))

\* C6: a request without document_ids made while no chunk row exists gets the
\* nothing-indexed response.
C6_NothingIndexed ==
    (askResp.kind # "none" /\ askResp.document_ids = << >> /\ chunks = {})
        => askResp.kind = "nothing_indexed"

\* C7: whenever extraction runs for the document have completed and none is
\* under way, the document has exactly one ContractExtraction row, and each of
\* its fields holds what the run that completed last produced: the value of
\* the key in that run's output, or the field's default ([], NULL, {}) when the
\* output lacks the key, whatever earlier runs stored.
C7_LastRunWins ==
    (extLog # << >> /\ \A w \in Workers : ext[w].pc = "idle") =>
        LET last == extLog[Len(extLog)]
            rows == {e \in extractions : e.document = 1}
        IN  /\ Cardinality(rows) = 1
            /\ \A e \in rows :
                   /\ e.parties = IF "parties" \in DOMAIN last THEN last.parties
                                  ELSE << >>
                   /\ e.effective_date = IF "effective_date" \in DOMAIN last
                                         THEN last.effective_date ELSE "None"
                   /\ e.term = IF "term" \in DOMAIN last THEN last.term ELSE "None"
                   /\ IF "auto_renewal" \in DOMAIN last
                      THEN e.auto_renewal = last.auto_renewal
                      ELSE DOMAIN e.auto_renewal = {}
                   /\ e.signatories = IF "signatories" \in DOMAIN last
                                      THEN last.signatories ELSE << >>
                   /\ DOMAIN e.raw_extraction = DOMAIN last
                   /\ \A k \in DOMAIN last \ {"effective_date"} :
                          e.raw_extraction[k] = last[k]

\* three runs have completed, the first of which produced a term and an
\* auto-renewal clause that the last one did not: the row holds neither
C7_Witness ==
    /\ Len(extLog) = 3
    /\ \A w \in Workers : ext[w].pc = "idle"
    /\ "term" \in DOMAIN extLog[1]
    /\ "auto_renewal" \in DOMAIN extLog[1]
    /\ "term" \notin DOMAIN extLog[3]
    /\ \E e \in extractions : e.term = "None" /\ e.parties = <<"A">>

\* C8: with two workers running the extraction of one document at the same
\* time the document never has more than one ContractExtraction row, it has
\* one as soon as a run has completed, and a worker whose insert was rejected
\* by the unique index finds the winner's row to update.
C8_ConcurrentExtraction ==
    \A d \in DOMAIN documents :
        LET rows == {e \in extractions : e.document = d}
        IN  /\ Cardinality(rows) <= 1
            /\ (extLog # << >> /\ d = 1) => Cardinality(rows) = 1
            /\ \A w \in Workers :
                   (ext[w].pc = "fallback" /\ ext[w].doc = d) => rows # {}

\* both workers had looked the row up before either inserted; one inserted,
\* the other fell back to fetch-then-update, and both runs have completed
C8_Witness ==
    /\ Len(extLog) = 2
    /\ \E w \in Workers : \E o \in Workers \ {w} :
           /\ ext[w] = [pc |-> "idle", doc |-> 0, data |-> << >>, path |-> "created"]
           /\ ext[o] = [pc |-> "idle", doc |-> 0, data |-> << >>, path |-> "fallback"]
    /\ Cardinality(extractions) = 1

\* C9: an audit request made for a document that has a persisted finding is
\* answered with exactly the persisted findings, without the detectors being
\* run and without any change to the AuditFinding table.
C9_CachedAudit ==
    [][\A a \in Requests : \A d \in 1..2 :
          (/\ \E f \in findings : f.document = d
           /\ \E mode \in AuditModes, response \in LlmResponses :
                  AuditBegin(a, d, mode, response))
          => (/\ aud'[a].pc = "idle"
              /\ aud'[a].resp.kind = "findings"
              /\ ~aud'[a].resp.detectors
              /\ {aud'[a].resp.findings[i].id : i \in 1..Len(aud'[a].resp.findings)}
                   = {f.id : f \in {g \in findings : g.document = d}}
              /\ findings' = findings)]_vars

\* C10: in the list audit_contract returns no two findings agree on risk_type
\* and on the first 50 characters of evidence; the list holds, of the collected
\* findings (rule findings first, LLM findings after), exactly those that no
\* earlier collected finding agrees with in that way.
C10_Deduplication ==
    \A a \in Requests :
        aud[a].pc = "save" =>
            LET in == aud[a].collected
                out == aud[a].computed
                head(f) == SubSeq(f.evidence, 1,
                                  IF Len(f.evidence) < 50 THEN Len(f.evidence) ELSE 50)
                same(f, g) == f.risk_type = g.risk_type /\ head(f) = head(g)
                firsts == {i \in 1..Len(in) : \A j \in 1..(i - 1) : ~same(in[j], in[i])}
            IN  /\ \A i, j \in 1..Len(out) : i # j => ~same(out[i], out[j])
                /\ Len(out) = Cardinality(firsts)
                /\ \A i \in firsts : \E k \in 1..Len(out) : out[k] = in[i]
                /\ \A k \in 1..Len(out) : \E i \in firsts : in[i] = out[k]

\* a rule finding and two LLM findings of its risk type were collected, one
\* LLM finding with evidence differing from the rule's in the 51st character
\* only (dropped), the other differing in the 50th (kept)
C10_Witness ==
    /\ aud["r1"].pc = "save"
    /\ \E i, j, k \in 1..Len(aud["r1"].collected) :
           LET in == aud["r1"].collected
               out == aud["r1"].computed
           IN  /\ i < j
               /\ in[i].detection_method = "rules"
               /\ in[j].detection_method = "llm"
               /\ in[k].detection_method = "llm"
               /\ in[i].risk_type = in[j].risk_type
               /\ in[i].risk_type = in[k].risk_type
               /\ Len(in[i].evidence) = 51
               /\ Len(in[j].evidence) = 51
               /\ SubSeq(in[i].evidence, 1, 50) = SubSeq(in[j].evidence, 1, 50)
               /\ in[i].evidence[51] # in[j].evidence[51]
               /\ SubSeq(in[i].evidence, 1, 49) = SubSeq(in[k].evidence, 1, 49)
               /\ in[i].evidence[50] # in[k].evidence[50]
               /\ \E n \in 1..Len(out) : out[n] = in[i]
               /\ \E n \in 1..Len(out) : out[n] = in[k]
               /\ \A n \in 1..Len(out) : out[n] # in[j]

\* C11: the findings an audit response lists, freshly computed or served from
\* the persisted rows, are in descending severity rank (critical, high, medium,
\* low), findings of equal rank in the order they were inserted.
C11_AuditRanking ==
    \A a \in Requests :
        aud[a].resp.kind = "findings" =>
            LET fs == aud[a].resp.findings
                rank(f) == CASE f.severity = "critical" -> 4
                             [] f.severity = "high" -> 3
                             [] f.severity = "medium" -> 2
                             [] f.severity = "low" -> 1
                             [] OTHER -> 0
            IN  \A i, j \in 1..Len(fs) :
                    i < j => \/ rank(fs[i]) > rank(fs[j])
                             \/ rank(fs[i]) = rank(fs[j]) /\ fs[i].id < fs[j].id

\* the heads of the chunks from the i-th on, concatenated: of each chunk the
\* part before the next chunk's char_start, of the last chunk all of it
RECURSIVE ConcatHeads(_, _)
ConcatHeads(cs, i) ==
    IF i > Len(cs) THEN << >>
    ELSE IF i = Len(cs) THEN cs[i].text
    ELSE SubSeq(cs[i].text, 1, cs[i + 1].char_start - cs[i].char_start)
         \o ConcatHeads(cs, i + 1)

\* C12: for every text, chunk size and overlap, the heads of the chunks
\* concatenated in chunk_index order give back the text.
C12_ChunkRoundTrip ==
    chunkOutput.done => ConcatHeads(chunkOutput.chunks, 1) = chunkInput.text

\* C13: every chunk's offsets satisfy 0 <= char_start <= char_end <= len(T) and
\* T[char_start:char_end] is the chunk's text.
C13_ChunkOffsetsAreSlices ==
    chunkOutput.done =>
        \A i \in 1..Len(chunkOutput.chunks) :
            LET c == chunkOutput.chunks[i] IN
            /\ 0 <= c.char_start
            /\ c.char_start <= c.char_end
            /\ c.char_end <= Len(chunkInput.text)
            /\ SubSeq(chunkInput.text, c.char_start + 1, c.char_end) = c.text

\* C14: however often a document is processed, it has at most one Page row per
\* page number and one Chunk row per chunk index, every row holding the text
\* (and offsets) the extraction and the chunker give for the document's
\* content; once a processing of the document has succeeded the rows are
\* exactly one per page and one per chunk, and stay so.
C14_ReprocessingIsIdempotent ==
    \A d \in DOMAIN documents :
        LET ps == PagesData(documents[d].file_hash)
            cs == ChunkTextWithLangchain(documents[d].file_hash)
            prows == {p \in pages : p.document = d}
            crows == {c \in chunks : c.document = d}
        IN  /\ \A p, q \in prows : p.page_number = q.page_number => p = q
            /\ \A c, e \in crows : c.chunk_index = e.chunk_index => c = e
            /\ \A p \in prows : /\ p.page_number \in 1..Len(ps)
                                /\ p.text_content = ps[p.page_number]
            /\ \A c \in crows :
                   /\ c.chunk_index \in 0..(Len(cs) - 1)
                   /\ c.text_content = cs[c.chunk_index + 1].text
                   /\ c.char_start = cs[c.chunk_index + 1].char_start
                   /\ c.char_end = cs[c.chunk_index + 1].char_end
            /\ d \in extractQueue =>
                   /\ Cardinality(prows) = Len(ps)
                   /\ Cardinality(crows) = Len(cs)

\* the text contract was uploaded twice and its second processing has
\* succeeded too: its two chunk rows, inserted by the first, refer to vectors
\* of the second
C14_Witness ==
    /\ uploads = 2
    /\ 1 \in DOMAIN documents
    /\ documents[1].file_hash = "h1"
    /\ documents[1].status = "completed"
    /\ queue = EmptyBag
    /\ \A w \in Workers : task[w].pc = "idle"
    /\ Cardinality({c \in chunks : c.document = 1}) = 2
    /\ \A c \in chunks : c.id <= 2 /\ c.vector_id > 2

\* C15: every extraction run stores its output's JSON-safe form as the row's
\* raw_extraction: no run ends in the error path, and once runs have completed
\* and none is under way, the raw_extraction of the document's row has the keys
\* of the last output, holds no date at any depth, holds the ISO string where
\* the output holds a date, and holds every other value as the output has it.
C15_RawExtractionIsJsonSafe ==
    /\ \A w \in Workers : ext[w].path # "failed"
    /\ (extLog # << >> /\ \A w \in Workers : ext[w].pc = "idle") =>
           LET last == extLog[Len(extLog)]
           IN  \A e \in extractions :
                   LET raw == e.raw_extraction
                   IN  /\ DOMAIN raw = DOMAIN last
                       /\ \A k \in DOMAIN last \cap {"effective_date", "term"} :
                              /\ ~IsDate(raw[k])
                              /\ raw[k] = Isoformat(last[k])
                       /\ "parties" \in DOMAIN last =>
                              /\ ~HoldsDate(raw.parties)
                              /\ raw.parties = last.parties
                       /\ "auto_renewal" \in DOMAIN last =>
                              raw.auto_renewal = last.auto_renewal
                       /\ "signatories" \in DOMAIN last =>
                              /\ Len(raw.signatories) = Len(last.signatories)
                              /\ \A i \in DOMAIN last.signatories :
                                     /\ ~HoldsDate(raw.signatories[i])
                                     /\ \A f \in DOMAIN last.signatories[i] :
                                            raw.signatories[i][f] =
                                                Isoformat(last.signatories[i][f])

\* C16: every step that changes the status of an existing Document takes it
\* from pending to processing, from processing to completed, from processing to
\* failed, or from failed to pending.
C16_StatusTransitions ==
    [][\A d \in DOMAIN documents :
           documents'[d].status # documents[d].status =>
               <<documents[d].status, documents'[d].status>> \in
                   {<<"pending", "processing">>, <<"processing", "completed">>,
                    <<"processing", "failed">>, <<"failed", "pending">>}]_vars

\* C17: every step in which a processing attempt on an existing Document ends
\* by an exception leaves that Document with status failed and with the
\* message of the exception the failing step raised as its error_message.
C17_FailureIsRecorded ==
    [][\A w \in Workers :
           (/\ task[w].pc # "idle"
            /\ task'[w].pc = "idle"
            /\ failures' = failures + 1
            /\ task[w].doc \in DOMAIN documents) =>
               /\ documents'[task[w].doc].status = "failed"
               /\ documents'[task[w].doc].error_message \in
                      IF task[w].pc = "started"
                      THEN {"extract_pages failed", "store_vectors failed"}
                      ELSE {"chunk save failed"}]_vars

\* the second chunk upsert of an attempt raised: one chunk row was written and
\* the Document is failed with that exception's message
C17_Witness ==
    /\ failures = 1
    /\ 1 \in DOMAIN documents
    /\ documents[1].status = "failed"
    /\ documents[1].error_message = "chunk save failed"
    /\ Cardinality({c \in chunks : c.document = 1}) = 1
    /\ \A w \in Workers : task[w].pc = "idle"

\* C18: no processing task is run with more than 3 retries behind it; the
\* message of a task's retry number n (from 1) was enqueued with a countdown of
\* 60*n seconds, so each retry waits longer than the one before; and a failed
\* Document for which no task is queued or running, its retries being
\* exhausted, changes status only by becoming pending in a step of a request
\* that uploads the same content.
C18_BoundedRetries ==
    /\ [](/\ \A m \in BagToSet(queue) :
               /\ m.retries <= 3
               /\ m.countdown = 60 * m.retries
          /\ \A w \in Workers : task[w].retries <= 3)
    /\ [][\A d \in DOMAIN documents :
              (documents[d].status = "failed" /\ NoTaskFor(d)
                 /\ documents'[d].status # "failed") =>
                  /\ documents'[d].status = "pending"
                  /\ \E r \in Requests :
                         /\ req[r].pc # "idle"
                         /\ req[r].file_hash = documents[d].file_hash]_vars

\* the first attempt on the only upload and its three retries have failed: the
\* Document is failed, nothing is queued and no worker is running
C18_Witness ==
    /\ uploads = 1
    /\ failures = 4
    /\ 1 \in DOMAIN documents
    /\ documents[1].status = "failed"
    /\ NoTaskFor(1)
    /\ \A r \in Requests : req[r].pc = "idle"

\* the characters of a set of page rows, two more for each page but one
RECURSIVE PagesLength(_)
PagesLength(rows) ==
    IF rows = {} THEN 0
    ELSE LET p == CHOOSE x \in rows : TRUE
         IN  Len(p.text_content) + (IF rows = {p} THEN 0 ELSE 2)
                 + PagesLength(rows \ {p})

\* C19: a Document whose status is completed has its processed_at set, a
\* page_count equal to the number of its DocumentPage rows, and a
\* total_characters equal to the length of its pages' texts joined with the
\* two-character separator.
C19_CompletedDocumentTotals ==
    \A d \in DOMAIN documents :
        documents[d].status = "completed" =>
            LET prows == {p \in pages : p.document = d}
            IN  /\ documents[d].processed_at # "None"
                /\ documents[d].page_count = Cardinality(prows)
                /\ documents[d].total_characters = PagesLength(prows)

\* the two-page scan and the text contract have both been processed, by two
\* uploads
C19_Witness ==
    /\ uploads = 2
    /\ \E d \in DOMAIN documents :
           /\ documents[d].status = "completed"
           /\ documents[d].file_hash = "h2"
           /\ documents[d].page_count = 2
           /\ documents[d].total_characters = 2
    /\ \E d \in DOMAIN documents :
           /\ documents[d].status = "completed"
           /\ documents[d].file_hash = "h1"

\* C20: every DocumentChunk row has a vector_id, and the Qdrant collection
\* holds a point of that id whose payload has the row's document, chunk_index,
\* char_start and char_end; and a step in which an attempt ends because the
\* embedding or the vector upsert raised leaves the DocumentChunk table as it
\* was.
C20_ChunksReferenceStoredVectors ==
    /\ [](\A c \in chunks :
              /\ c.vector_id # 0
              /\ \E v \in qdrant :
                     /\ v.id = c.vector_id
                     /\ v.document_id = c.document
                     /\ v.chunk_index = c.chunk_index
                     /\ v.char_start = c.char_start
                     /\ v.char_end = c.char_end)
    /\ [][\A w \in Workers :
              (/\ task[w].pc = "started"
               /\ task'[w].pc = "idle"
               /\ task[w].doc \in DOMAIN documents
               /\ documents'[task[w].doc].error_message = "store_vectors failed")
                  => chunks' = chunks]_vars

\* an attempt wrote one chunk row before its second chunk upsert raised, and
\* the retry failed in store_vectors: the row is still the only one and refers
\* to a point of the first attempt
C20_Witness ==
    /\ failures = 2
    /\ 1 \in DOMAIN documents
    /\ documents[1].status = "failed"
    /\ documents[1].error_message = "store_vectors failed"
    /\ Cardinality(chunks) = 1
    /\ \A c \in chunks : c.vector_id = 1
    /\ Cardinality(qdrant) = 2

\* C21: while and after two workers run the processing task for one document,
\* the document has one Page row per page number and one Chunk row per chunk
\* index, each Chunk row with the chunker's text and offsets and the id of a
\* stored point of that chunk; and once no task for the document is queued or
\* running and no upload is in progress, after runs that did not exhaust the
\* retries, the document is completed with exactly the rows of a single run.
C21_ConcurrentProcessingConverges ==
    \A d \in DOMAIN documents :
        LET ps == PagesData(documents[d].file_hash)
            cs == ChunkTextWithLangchain(documents[d].file_hash)
            prows == {p \in pages : p.document = d}
            crows == {c \in chunks : c.document = d}
        IN  /\ Cardinality({p.page_number : p \in prows}) = Cardinality(prows)
            /\ Cardinality({c.chunk_index : c \in crows}) = Cardinality(crows)
            /\ \A c \in crows :
                   /\ c.text_content = cs[c.chunk_index + 1].text
                   /\ c.char_start = cs[c.chunk_index + 1].char_start
                   /\ c.char_end = cs[c.chunk_index + 1].char_end
                   /\ \E v \in qdrant : /\ v.id = c.vector_id
                                         /\ v.document_id = d
                                         /\ v.chunk_index = c.chunk_index
            /\ (NoTaskFor(d) /\ \A r \in Requests : req[r].pc = "idle") =>
                   /\ documents[d].status = "completed"
                   /\ {p.page_number : p \in prows} = 1..Len(ps)
                   /\ {c.chunk_index : c \in crows} = 0..(Len(cs) - 1)

\* two tasks for the text contract ran at once: one has finished, the Document
\* is completed and the chunk rows refer to its points, while the other has
\* stored points of its own and is about to write the chunk rows again
C21_Witness ==
    /\ 1 \in DOMAIN documents
    /\ documents[1].file_hash = "h1"
    /\ documents[1].status = "completed"
    /\ task["w1"].pc = "idle"
    /\ task["w2"].pc = "stored"
    /\ task["w2"].doc = 1
    /\ Cardinality({c \in chunks : c.document = 1}) = 2
    /\ \A c \in chunks : c.vector_id \notin Range(task["w2"].vector_ids)
    /\ Cardinality(qdrant) = 4

\* C22: every audit request that ran the detectors, whatever the language
\* model returned, ended with a findings response: audit_contract did not raise.
C22_LlmPassNeverAborts ==
    \A a \in Requests :
        (aud[a].pc = "idle" /\ aud[a].resp.detectors) => aud[a].resp.kind = "findings"

\* C23: _rule_based_audit returns the auto-renewal finding (risk_type
\* auto_renewal, severity high) exactly when the extraction's auto_renewal is
\* enabled and its notice_days is a positive number below 30.
C23_AutoRenewalRule ==
    result.done =>
        LET e == call.extracted_data
            r == IF "auto_renewal" \in DOMAIN e THEN e.auto_renewal ELSE EmptyDict
            enabled == "enabled" \in DOMAIN r /\ r.enabled
            short == /\ "notice_days" \in DOMAIN r
                     /\ r.notice_days > 0
                     /\ r.notice_days < 30
        IN  (\E i \in 1..Len(result.findings) :
                 /\ result.findings[i].risk_type = "auto_renewal"
                 /\ result.findings[i].severity = "high")
                <=> (enabled /\ short)

\* C24: in an answer, the citation of every hit on a completed document that
\* has the DocumentChunk row of the hit carries a page_number, that of the
\* DocumentPage the row is associated with.
C24_CitationPageNumber ==
    askResp.kind = "answer" =>
        \A c \in askResp.citations :
            \A row \in chunks :
                (/\ row.document = c.document_id
                 /\ row.chunk_index = c.chunk_index
                 /\ documents[row.document].status = "completed") =>
                    /\ "page_number" \in DOMAIN c
                    /\ \E p \in pages : /\ p.id = row.page
                                        /\ p.page_number = c.page_number

\* C25: an answer carries one citation for each hit, and the citation of a hit
\* whose DocumentChunk row is missing or has no page carries as page_number
\* the estimate char_start divided by a constant number of characters per
\* page, plus one.
C25_CitationPageEstimate ==
    askResp.kind = "answer" =>
        /\ Cardinality(askResp.citations) = Cardinality(askResp.hits)
        /\ \A c \in askResp.citations :
               (\A row \in chunks :
                    (row.document = c.document_id /\ row.chunk_index = c.chunk_index)
                        => row.page = 0) =>
                   /\ "page_number" \in DOMAIN c
                   /\ \E k \in 1..(c.char_start + 1) :
                          c.page_number = (c.char_start \div k) + 1

\* C26: retrieve returns at most top_k hits, and of two hits the one returned
\* first is the more similar to the question, or as similar with the lower
\* chunk_index, or as similar with the same chunk_index and the lower
\* document_id.
C26_RetrieveOrder ==
    result.done =>
        LET hits == result.chunks
            sim(h) == call.similarity[[document_id |-> h.document_id,
                                       chunk_index |-> h.chunk_index,
                                       char_start |-> h.char_start,
                                       char_end |-> h.char_end]]
        IN  /\ Len(hits) <= call.top_k
            /\ \A i, j \in 1..Len(hits) : i < j =>
                   \/ sim(hits[i]) > sim(hits[j])
                   \/ /\ sim(hits[i]) = sim(hits[j])
                      /\ hits[i].chunk_index < hits[j].chunk_index
                   \/ /\ sim(hits[i]) = sim(hits[j])
                      /\ hits[i].chunk_index = hits[j].chunk_index
                      /\ hits[i].document_id < hits[j].document_id

\* C27: a step that deletes a Document leaves no point with that document's
\* id in the Qdrant collection, and leaves the points of every other document
\* as they were.
C27_DeleteRemovesVectors ==
    [][\A d \in DOMAIN documents :
           d \notin DOMAIN documents' =>
               /\ \A v \in qdrant' : v.document_id # d
               /\ {v \in qdrant' : v.document_id # d}
                     = {v \in qdrant : v.document_id # d}]_vars

\* C28: the step in which a worker ends a processing attempt leaves the
\* attempt's Document completed or failed, and under fair scheduling a Document
\* that is pending or processing is later completed or failed.
C28_ProcessingSettles ==
    /\ [][\A w \in Workers :
              (/\ task[w].pc # "idle"
               /\ task'[w].pc = "idle"
               /\ task[w].doc \in DOMAIN documents') =>
                  documents'[task[w].doc].status \in {"completed", "failed"}]_vars
    /\ \A d \in 1..MaxUploads :
           (d \in DOMAIN documents /\ documents[d].status \in {"pending", "processing"})
               ~> (d \in DOMAIN documents /\ documents[d].status \in {"completed", "failed"})

\* a document whose first attempt failed and whose retry completed it
C28_Witness ==
    /\ failures = 1
    /\ 1 \in DOMAIN documents
    /\ documents[1].status = "completed"
    /\ documents[1].error_message # "None"
    /\ NoTaskFor(1)

\* C29: for a completed document with chunk rows, a retrieval restricted to
\* its id whose search does not raise returns at least one hit, and each hit
\* has the chunk_index, char_start and char_end of one of the document's
\* chunk rows.
C29_RetrievalSearchesProcessedIndex ==
    \A d \in DOMAIN documents :
        (documents[d].status = "completed" /\ \E c \in chunks : c.document = d) =>
            LET hits == Retrieve(<<d>>, TRUE)
            IN  /\ hits # {}
                /\ \A h \in hits :
                       \E c \in chunks :
                           /\ c.document = d
                           /\ c.chunk_index = h.chunk_index
                           /\ c.char_start = h.char_start
                           /\ c.char_end = h.char_end

\* C30: when an audit request saves its findings for a document that got
\* finding rows since the request looked for cached ones, that is, when another
\* request was auditing the document at the same time, no two finding rows of
\* the document have the same risk type and evidence afterwards, and the
\* request returns the findings the other request returned.
C30_ConcurrentAuditsAgree ==
    [][\A a \in Requests :
           (/\ aud[a].pc = "save"
            /\ FindingsOf(aud[a].document_id) # {}
            /\ aud'[a].pc = "idle") =>
               LET d == aud[a].document_id
               IN  /\ \A f, g \in {x \in findings' : x.document = d} :
                          (f.risk_type = g.risk_type
                             /\ f.evidence_text = g.evidence_text) => f.id = g.id
                   /\ \A b \in Requests \ {a} :
                          (aud[b].document_id = d /\ aud[b].resp.kind = "findings") =>
                              Range(aud'[a].resp.findings) = Range(aud[b].resp.findings)]_vars

====
